---- MODULE Spec2Model ----
(***************************************************************************)
(* Liveness-check state machine of src/App.tsx: the detection reducer,    *)
(* the per-frame face handler and the challenge evaluators.               *)
(*                                                                         *)
(* progressFill is a JavaScript number.  It is modelled as an IEEE-754    *)
(* double: a record [hi, lo, exp] whose value is (hi * 2^26 + lo) * 2^exp *)
(* with a 53-bit significand (2^26 <= hi < 2^27, 0 <= lo < 2^26), zero    *)
(* being [hi |-> 0, lo |-> 0, exp |-> 0].  Division and multiplication    *)
(* round to nearest, ties to even, as the JavaScript operators do.        *)
(***************************************************************************)
EXTENDS Integers, Sequences, FiniteSets, TLC

\* ------------------------------------------------------------------------
\* IEEE-754 double arithmetic on the operand ranges the reducer uses
\* ------------------------------------------------------------------------

RECURSIVE Pow2(_)
Pow2(n) == IF n = 0 THEN 1 ELSE 2 * Pow2(n - 1)

B26 == Pow2(26)

B27 == Pow2(27)

DZero == [hi |-> 0, lo |-> 0, exp |-> 0]

\* add one unit in the last place of the significand, renormalising
DIncr(d) ==
  IF d.lo + 1 < B26 THEN [d EXCEPT !.lo = d.lo + 1]
  ELSE IF d.hi + 1 < B27 THEN [d EXCEPT !.hi = d.hi + 1, !.lo = 0]
  ELSE [hi |-> B26, lo |-> 0, exp |-> d.exp + 1]

\* s plus the least k with (a * 2^k) \div b >= 2^26
RECURSIVE DivShift(_, _, _)
DivShift(a, b, s) ==
  IF a \div b >= B26 THEN s ELSE DivShift(2 * a, b, s + 1)

\* the double nearest to a / b, for integers 0 < a, 0 < b < 16
DDivInt(a, b) ==
  LET s  == DivShift(a, b, 0)
      n  == a * Pow2(s)
      hi == n \div b
      r1 == n % b
      lo == (r1 * B26) \div b
      r2 == (r1 * B26) % b
      q  == [hi |-> hi, lo |-> lo, exp |-> 0 - (s + 26)]
  IN IF 2 * r2 > b \/ (2 * r2 = b /\ lo % 2 = 1) THEN DIncr(q) ELSE q

\* least t with h \div 2^t < 2^27
RECURSIVE MulShift(_, _)
MulShift(h, t) == IF h \div Pow2(t) < B27 THEN t ELSE MulShift(h, t + 1)

\* the double nearest to d * m, for a double d >= 0 and an integer 0 < m < 16
DMulInt(d, m) ==
  IF d = DZero THEN DZero
  ELSE
  LET loP  == d.lo * m
      hiP  == d.hi * m + (loP \div B26)
      lo1  == loP % B26
      t    == MulShift(hiP, 0)
      p    == Pow2(t)
      drop == lo1 % p
      q    == [hi  |-> hiP \div p,
               lo  |-> (lo1 \div p) + (hiP % p) * (B26 \div p),
               exp |-> d.exp + t]
  IN IF t = 0 THEN q
     ELSE IF 2 * drop > p \/ (2 * drop = p /\ q.lo % 2 = 1) THEN DIncr(q)
     ELSE q

\* the double of a small integer literal n, 0 <= n < 2^26
DInt(n) == IF n = 0 THEN DZero ELSE DDivInt(n, 1)

\* 100 / b for 0 < b < 16, each quotient computed once
HundredOver == [b \in 1..15 |-> DDivInt(100, b)]

\* (100 / b) * m for 0 < b < 16 and 0 < m < 16, each product computed once
HundredOverTimes ==
  [b \in 1..15 |-> [m \in 1..15 |-> DMulInt(HundredOver[b], m)]]

\* a < b on non-negative doubles
DLess(a, b) ==
  IF b = DZero THEN FALSE
  ELSE IF a = DZero THEN TRUE
  ELSE \/ a.exp < b.exp
       \/ a.exp = b.exp /\ a.hi < b.hi
       \/ a.exp = b.exp /\ a.hi = b.hi /\ a.lo < b.lo

DLeq(a, b) == a = b \/ DLess(a, b)

\* ------------------------------------------------------------------------
\* Configuration
\* ------------------------------------------------------------------------

\* Dimensions.get("window").width of the device the app runs on
windowWidth == 375

PREVIEW_SIZE == 325

PREVIEW_RECT ==
  [minX   |-> (windowWidth - PREVIEW_SIZE) \div 2,
   minY   |-> 50,
   width  |-> PREVIEW_SIZE,
   height |-> PREVIEW_SIZE]

\* Thresholds.  Probabilities are in hundredths, yaw angles in degrees,
\* minDiff in tenths of a degree.
detections ==
  [BLINK           |-> [minProbability |-> 30],
   TURN_HEAD_LEFT  |-> [maxAngle |-> 0 - 15],
   TURN_HEAD_RIGHT |-> [minAngle |-> 15],
   NOD             |-> [minDiff |-> 15],
   SMILE           |-> [minProbability |-> 70]]

detectionsList ==
  <<"BLINK", "TURN_HEAD_LEFT", "TURN_HEAD_RIGHT", "NOD", "SMILE">>

initialState ==
  [faceDetected          |-> "no",
   faceTooBig            |-> "no",
   detectionsList        |-> detectionsList,
   currentDetectionIndex |-> 0,
   progressFill          |-> DZero,
   processComplete       |-> FALSE]

\* The well-typed actions (PossibleActions)
PossibleActions ==
  {[type |-> "FACE_DETECTED", payload |-> p] : p \in {"yes", "no"}}
    \cup {[type |-> "FACE_TOO_BIG", payload |-> p] : p \in {"yes", "no"}}
    \cup {[type |-> "NEXT_DETECTION", payload |-> "null"]}

FaceDetected(p) == [type |-> "FACE_DETECTED", payload |-> p]

FaceTooBig(p) == [type |-> "FACE_TOO_BIG", payload |-> p]

NextDetection == [type |-> "NEXT_DETECTION", payload |-> "null"]

\* ------------------------------------------------------------------------
\* The reducer
\* ------------------------------------------------------------------------

\* the value of a reducer call that throws
Thrown == [error |-> "Unexpected action type."]

\* Variant: the reset forgets the oversize flag
reduceFaceDetected_KeepsTooBig(st, payload) ==
  IF payload = "yes"
  THEN [st EXCEPT !.faceDetected = payload,
                  !.progressFill = DDivInt(100, Len(st.detectionsList) + 1)]
  ELSE [initialState EXCEPT !.faceTooBig = st.faceTooBig]

\* Variant: the reset keeps the progress made
reduceFaceDetected_KeepsProgress(st, payload) ==
  IF payload = "yes"
  THEN [st EXCEPT !.faceDetected = payload,
                  !.progressFill = DDivInt(100, Len(st.detectionsList) + 1)]
  ELSE [initialState EXCEPT !.progressFill = st.progressFill]

\* Variant: "yes" is ignored when the face is already detected
reduceFaceDetected_NoOpWhenDetected(st, payload) ==
  IF payload = "yes"
  THEN IF st.faceDetected = "yes" THEN st
       ELSE [st EXCEPT !.faceDetected = payload,
                       !.progressFill = DDivInt(100, Len(st.detectionsList) + 1)]
  ELSE initialState

\* Variant: "yes" adds 100 / (N + 1) to progressFill instead of setting it
reduceFaceDetected_Accumulates(st, payload) ==
  IF payload = "yes"
  THEN LET unit == DDivInt(100, Len(st.detectionsList) + 1)
           m == CHOOSE k \in 0..15 : st.progressFill = DMulInt(unit, k)
                                       \/ (k = 0 /\ st.progressFill = DZero)
       IN [st EXCEPT !.faceDetected = payload,
                     !.progressFill = DMulInt(unit, m + 1)]
  ELSE initialState

\* case "FACE_DETECTED"
reduceFaceDetected(st, payload) ==
  IF payload = "yes"
  THEN [st EXCEPT !.faceDetected = payload,
                  !.progressFill = HundredOver[Len(st.detectionsList) + 1]]
  ELSE initialState

\* case "FACE_TOO_BIG"
reduceFaceTooBig(st, payload) == [st EXCEPT !.faceTooBig = payload]

\* Variant: the multiplier does not skip index 0
newProgressFill_NoSkip(st) ==
  LET nextDetectionIndex == st.currentDetectionIndex + 1
      progressMultiplier == nextDetectionIndex
  IN DMulInt(DDivInt(100, Len(st.detectionsList) + 1), progressMultiplier)

\* newProgressFill of case "NEXT_DETECTION"
newProgressFill(st) ==
  LET nextDetectionIndex == st.currentDetectionIndex + 1
      progressMultiplier == nextDetectionIndex + 1
  IN HundredOverTimes[Len(st.detectionsList) + 1][progressMultiplier]

\* Variant: the index also moves past the last challenge on completion
reduceNextDetection_IndexPastEnd(st) ==
  LET nextDetectionIndex == st.currentDetectionIndex + 1
  IN IF nextDetectionIndex >= Len(st.detectionsList)
     THEN [st EXCEPT !.processComplete = TRUE,
                     !.currentDetectionIndex = Len(st.detectionsList),
                     !.progressFill = DInt(100)]
     ELSE [st EXCEPT !.currentDetectionIndex = nextDetectionIndex,
                     !.progressFill = newProgressFill(st)]

\* Variant: after the last challenge the list starts again
reduceNextDetection_Wraps(st) ==
  LET nextDetectionIndex == st.currentDetectionIndex + 1
  IN IF nextDetectionIndex = Len(st.detectionsList)
     THEN [st EXCEPT !.currentDetectionIndex = 0,
                     !.progressFill = newProgressFill(st)]
     ELSE [st EXCEPT !.currentDetectionIndex = nextDetectionIndex,
                     !.progressFill = newProgressFill(st)]

\* Variant: completion stores the index past the last challenge
reduceNextDetection_StoresLastIndex(st) ==
  LET nextDetectionIndex == st.currentDetectionIndex + 1
  IN IF nextDetectionIndex = Len(st.detectionsList)
     THEN [st EXCEPT !.processComplete = TRUE,
                     !.currentDetectionIndex = nextDetectionIndex,
                     !.progressFill = newProgressFill(st)]
     ELSE [st EXCEPT !.currentDetectionIndex = nextDetectionIndex,
                     !.progressFill = newProgressFill(st)]

\* case "NEXT_DETECTION"
reduceNextDetection(st) ==
  LET nextDetectionIndex == st.currentDetectionIndex + 1
  IN IF nextDetectionIndex = Len(st.detectionsList)
     THEN [st EXCEPT !.processComplete = TRUE,
                     !.progressFill = newProgressFill(st)]
     ELSE [st EXCEPT !.currentDetectionIndex = nextDetectionIndex,
                     !.progressFill = newProgressFill(st)]

\* Variant: an action of unknown type leaves the state as it is
detectionReducer_Swallows(st, action) ==
  CASE action.type = "FACE_DETECTED" -> reduceFaceDetected(st, action.payload)
    [] action.type = "FACE_TOO_BIG" -> reduceFaceTooBig(st, action.payload)
    [] action.type = "NEXT_DETECTION" -> reduceNextDetection(st)
    [] OTHER -> st


detectionReducer(st, action) ==
  CASE action.type = "FACE_DETECTED" -> reduceFaceDetected(st, action.payload)
    [] action.type = "FACE_TOO_BIG" -> reduceFaceTooBig(st, action.payload)
    [] action.type = "NEXT_DETECTION" -> reduceNextDetection(st)
    [] OTHER -> Thrown

\* React applies the actions dispatched during one callback in dispatch order
RECURSIVE ApplyAll(_, _)
ApplyAll(st, actions) ==
  IF actions = <<>> THEN st
  ELSE ApplyAll(detectionReducer(st, Head(actions)), Tail(actions))

\* ------------------------------------------------------------------------
\* Containment (utils/contains)
\* ------------------------------------------------------------------------

contains(outside, inside) ==
  /\ inside.minX >= outside.minX
  /\ inside.minY >= outside.minY
  /\ inside.minX + inside.width <= outside.minX + outside.width
  /\ inside.minY + inside.height <= outside.minY + outside.height

\* ------------------------------------------------------------------------
\* The frame handler
\* ------------------------------------------------------------------------

Abs(x) == IF x < 0 THEN 0 - x ELSE x

RECURSIVE SumAbs(_)
SumAbs(angles) ==
  IF angles = <<>> THEN 0 ELSE Abs(Head(angles)) + SumAbs(Tail(angles))

\* Variant: one closed eye is enough
blinkSatisfied_EitherEye(face) ==
  LET leftEyeClosed ==
        face.leftEyeOpenProbability <= detections.BLINK.minProbability
      rightEyeClosed ==
        face.rightEyeOpenProbability <= detections.BLINK.minProbability
  IN leftEyeClosed \/ rightEyeClosed

\* case "BLINK": leftEyeClosed && rightEyeClosed
blinkSatisfied(face) ==
  LET leftEyeClosed ==
        face.leftEyeOpenProbability <= detections.BLINK.minProbability
      rightEyeClosed ==
        face.rightEyeOpenProbability <= detections.BLINK.minProbability
  IN leftEyeClosed /\ rightEyeClosed

\* case "TURN_HEAD_LEFT"
turnLeftSatisfied(face) == face.yawAngle <= detections.TURN_HEAD_LEFT.maxAngle

\* case "TURN_HEAD_RIGHT"
turnRightSatisfied(face) == face.yawAngle >= detections.TURN_HEAD_RIGHT.minAngle

\* case "SMILE"
smileSatisfied(face) ==
  face.smilingProbability >= detections.SMILE.minProbability

\* Variant: the difference has to exceed minDiff
nodSatisfied_Strict(kept, face) ==
  LET rollAnglesExceptCurrent == SubSeq(kept, 1, Len(kept) - 1)
      rollAnglesSum == SumAbs(rollAnglesExceptCurrent)
      n == Len(rollAnglesExceptCurrent)
      diffTimes20n == 10 * Abs(rollAnglesSum - n * Abs(face.rollAngle))
  IN /\ ~(Len(kept) < 10)
     /\ diffTimes20n > detections.NOD.minDiff * 2 * n

\* case "NOD", after the push and the shift: enough data and diff >= minDiff.
\* Roll angles are counted in half degrees, which doubles represent exactly,
\* and so are their sums.  rollAnglesSum / length is then either exactly
\* |rollAngle| +- 1.5 (a representable quotient, which the division returns
\* unrounded) or at least 1/18 of a degree away from it, so that rounding
\* cannot change the comparison: it is evaluated exactly, scaled by
\* 20 * length (minDiff is in tenths of a degree).
nodSatisfied(kept, face) ==
  LET rollAnglesExceptCurrent == SubSeq(kept, 1, Len(kept) - 1)
      rollAnglesSum == SumAbs(rollAnglesExceptCurrent)
      n == Len(rollAnglesExceptCurrent)
      diffTimes20n == 10 * Abs(rollAnglesSum - n * Abs(face.rollAngle))
  IN /\ ~(Len(kept) < 10)
     /\ diffTimes20n >= detections.NOD.minDiff * 2 * n

\* Variant: a full history drops the new reading
pushRollAngle_DropsNewest(rolls, face) ==
  LET pushed == Append(rolls, face.rollAngle)
  IN IF Len(pushed) > 10 THEN SubSeq(pushed, 1, 10) ELSE pushed

\* case "NOD": push the roll angle, keep the last 10
pushRollAngle(rolls, face) ==
  LET pushed == Append(rolls, face.rollAngle)
  IN IF Len(pushed) > 10 THEN Tail(pushed) ELSE pushed

\* The switch over the current challenge: the events it dispatches and the
\* roll-angle history it leaves
EvaluateDetection(st, rolls, face) ==
  LET detectionAction == st.detectionsList[st.currentDetectionIndex + 1]
      advanceIf(c) == IF c THEN <<NextDetection>> ELSE <<>>
  IN CASE detectionAction = "BLINK" ->
            [events |-> advanceIf(blinkSatisfied(face)), rollAngles |-> rolls]
       [] detectionAction = "NOD" ->
            LET kept == pushRollAngle(rolls, face)
            IN [events |-> advanceIf(nodSatisfied(kept, face)),
                rollAngles |-> kept]
       [] detectionAction = "TURN_HEAD_LEFT" ->
            [events |-> advanceIf(turnLeftSatisfied(face)), rollAngles |-> rolls]
       [] detectionAction = "TURN_HEAD_RIGHT" ->
            [events |-> advanceIf(turnRightSatisfied(face)), rollAngles |-> rolls]
       [] detectionAction = "SMILE" ->
            [events |-> advanceIf(smileSatisfied(face)), rollAngles |-> rolls]

faceRectOf(face) ==
  [minX   |-> face.bounds.origin.x,
   minY   |-> face.bounds.origin.y,
   width  |-> face.bounds.size.width,
   height |-> face.bounds.size.height]

edgeOffset == 50

\* Variant: the inset is centred (the origin moves by edgeOffset / 2)
faceRectSmaller_Centred(faceRect) ==
  [faceRect EXCEPT !.width  = faceRect.width - edgeOffset,
                   !.height = faceRect.height - edgeOffset,
                   !.minY   = faceRect.minY + edgeOffset \div 2,
                   !.minX   = faceRect.minX + edgeOffset \div 2]

\* makes the inner rect a bit smaller
faceRectSmaller(faceRect) ==
  [faceRect EXCEPT !.width  = faceRect.width - edgeOffset,
                   !.height = faceRect.height - edgeOffset]

previewContainsFace(face) ==
  contains(PREVIEW_RECT, faceRectSmaller(faceRectOf(face)))

\* Variant: the size test reads the inset rectangle
faceIsTooBig_Inset(face) ==
  LET faceRect == faceRectSmaller(faceRectOf(face))
      faceMaxSize == PREVIEW_SIZE - 90
  IN faceRect.width >= faceMaxSize /\ faceRect.height >= faceMaxSize

\* Face is not as big as the camera preview
faceIsTooBig(face) ==
  LET faceRect == faceRectOf(face)
      faceMaxSize == PREVIEW_SIZE - 90
  IN faceRect.width >= faceMaxSize /\ faceRect.height >= faceMaxSize

\* Variant: FACE_TOO_BIG(no) is never dispatched
sizeEvents_Never(st) == <<>>

\* FACE_TOO_BIG(no), dispatched when the closure's state is flagged oversize
sizeEvents(st) ==
  IF st.faceTooBig = "yes" THEN <<FaceTooBig("no")>> ELSE <<>>

\* Variant: FACE_DETECTED(yes) is dispatched on every qualifying frame
detectedEvents_Always(st) == <<FaceDetected("yes")>>

\* FACE_DETECTED(yes), dispatched when the closure's state has no face
detectedEvents(st) ==
  IF st.faceDetected = "no" THEN <<FaceDetected("yes")>> ELSE <<>>

\* handleFaceDetection(result), run by a callback whose closure holds
\* `st` (the state of the render that created it): the events it dispatches,
\* in order, and the new roll-angle history
handleFaceDetection(st, rolls, result) ==
  IF Len(result.faces) # 1
  THEN [events |-> <<FaceDetected("no")>>, rollAngles |-> rolls]
  ELSE
  LET face == result.faces[1]
      evaluated == EvaluateDetection(st, rolls, face)
  IN IF ~previewContainsFace(face)
     THEN [events |-> <<FaceDetected("no")>>, rollAngles |-> rolls]
     ELSE IF st.faceDetected = "no" /\ faceIsTooBig(face)
     THEN [events |-> <<FaceTooBig("yes")>>, rollAngles |-> rolls]
     ELSE [events     |-> (IF st.faceDetected = "no"
                           THEN sizeEvents(st) ELSE <<>>)
                            \o detectedEvents(st) \o evaluated.events,
           rollAngles |-> evaluated.rollAngles]

\* ------------------------------------------------------------------------
\* Frames delivered by the face detector
\* ------------------------------------------------------------------------

\* the largest number of faces a frame reports
MaxFaces == 2

\* the largest number of tilted readings (rollAngle # 0) the roll-angle
\* history holds at a time
MaxTilted == 1

\* the largest number of actions dispatched to the reducer between two resets
\* when the reducer is driven directly
MaxTrace == 7

Bounds(x, y, w, h) ==
  [origin |-> [x |-> x, y |-> y], size |-> [width |-> w, height |-> h]]

Face(b, l, r, s, yaw, roll) ==
  [bounds                  |-> b,
   leftEyeOpenProbability  |-> l,
   rightEyeOpenProbability |-> r,
   smilingProbability      |-> s,
   yawAngle                |-> yaw,
   rollAngle               |-> roll]

\* inside the preview and below the size limit
BoundsInside == Bounds(25, 50, 234, 234)

\* inside the preview, width and height both at the size limit
BoundsTooBig == Bounds(25, 50, 235, 235)

\* one unit left of the preview
BoundsLeft == Bounds(24, 50, 234, 234)

\* face rectangles: the three above, one with only its width at the size
\* limit, one whose inset width overshoots the right edge of the preview
FaceBounds ==
  {BoundsInside, BoundsTooBig, BoundsLeft, Bounds(25, 50, 235, 234),
   Bounds(25, 50, 376, 234)}

EyeProbabilities == {30, 31}

SmilingProbabilities == {69, 70}

YawAngles == {0 - 20, 0 - 15, 0 - 14, 14, 15}

\* half degrees: level, and tilted by 10 degrees
RollAngles == {0, 20}

\* The faces the detector reports: a face that satisfies no challenge, varied
\* in one measurement at a time, and faces that satisfy several challenges at
\* once.
Faces ==
  {Face(b, 31, 31, 69, 0, 0) : b \in FaceBounds}
    \cup {Face(BoundsInside, l, r, 69, 0, 0) :
            l \in EyeProbabilities, r \in EyeProbabilities}
    \cup {Face(BoundsInside, 31, 31, 69, y, 0) : y \in YawAngles}
    \cup {Face(BoundsInside, 31, 31, s, 0, 0) : s \in SmilingProbabilities}
    \cup {Face(BoundsInside, 31, 31, 69, 0, a) : a \in RollAngles}
    \cup {Face(b, 30, 30, 70, y, 20) :
            b \in {BoundsInside, BoundsTooBig, BoundsLeft}, y \in {0 - 15, 15}}

Results ==
  {[faces |-> <<>>]} \cup {[faces |-> <<f>>] : f \in Faces}
    \cup {[faces |-> [i \in 1..n |-> Face(BoundsInside, 30, 30, 70, 15, 0)]] :
            n \in 2..MaxFaces}

RECURSIVE Tilted(_)
Tilted(angles) ==
  IF angles = <<>> THEN 0
  ELSE (IF Head(angles) # 0 THEN 1 ELSE 0) + Tilted(Tail(angles))

\* ------------------------------------------------------------------------
\* State
\* ------------------------------------------------------------------------

VARIABLES
  state,           \* the reducer state held by useReducer
  closure,         \* the state captured by the current handleFaceDetection closure
  rollAngles,      \* rollAngles.current
  result,          \* the frame handled last (one without faces before the first)
  events,          \* the actions dispatched by the last step, in order
  prev,            \* the reducer state before the last step
  prevRollAngles,  \* rollAngles.current before the last step
  thrown,          \* whether the reducer has thrown
  trace            \* the actions dispatched to the reducer since its last reset

vars ==
  <<state, closure, rollAngles, result, events, prev, prevRollAngles, thrown,
    trace>>

Init ==
  /\ state = initialState
  /\ closure = initialState
  /\ rollAngles = <<>>
  /\ result = [faces |-> <<>>]
  /\ events = <<>>
  /\ prev = initialState
  /\ prevRollAngles = <<>>
  /\ thrown = FALSE
  /\ trace = <<>>

\* One call of handleFaceDetection(r): the callback runs on the closure's
\* state and its dispatches are reduced in order.  With `rendered` the
\* component re-renders with the new state before the next frame is
\* delivered; without, the next callback still holds the closure of this one.
Deliver(r, rendered) ==
  LET handled == handleFaceDetection(closure, rollAngles, r)
      reduced == ApplyAll(state, handled.events)
  IN /\ state' = reduced
     /\ closure' = (IF rendered THEN reduced ELSE closure)
     /\ rollAngles' = handled.rollAngles
     /\ result' = r
     /\ events' = handled.events
     /\ prev' = state
     /\ prevRollAngles' = rollAngles
     /\ UNCHANGED <<thrown, trace>>

\* the frame leaves at most MaxTilted tilted readings in the roll-angle history
WithinTilted(r) ==
  Tilted(handleFaceDetection(closure, rollAngles, r).rollAngles) <= MaxTilted

\* One camera frame, the component re-rendered before the next one
Frame(r) == WithinTilted(r) /\ Deliver(r, TRUE)

\* One action dispatched to the reducer directly.  A reducer that throws
\* yields no state: the state held stays as it was and nothing is dispatched
\* after it.
Dispatch(a) ==
  LET reduced == detectionReducer(state, a)
  IN /\ ~thrown
     /\ a = FaceDetected("no") \/ Len(trace) < MaxTrace
     /\ IF reduced = Thrown
        THEN thrown' = TRUE /\ UNCHANGED <<state, closure>>
        ELSE thrown' = FALSE /\ state' = reduced /\ closure' = reduced
     /\ events' = <<a>>
     /\ prev' = state
     /\ prevRollAngles' = rollAngles
     /\ trace' = IF a = FaceDetected("no") THEN <<>> ELSE Append(trace, a)
     /\ UNCHANGED <<rollAngles, result>>

Next == \E r \in Results : Frame(r)

Spec == Init /\ [][Next]_vars

NextReducer == \E a \in PossibleActions : Dispatch(a)

SpecReducer == Init /\ [][NextReducer]_vars

\* ------------------------------------------------------------------------
\* Properties
\* ------------------------------------------------------------------------

\* number of configured challenges
N == Len(detectionsList)

\* C1. Reset completeness: whatever the state, FACE_DETECTED(no) yields
\* exactly the initial state, every field included.
C1_ResetCompleteness ==
  /\ detectionReducer(state, FaceDetected("no")) = initialState
  /\ events = <<FaceDetected("no")>> => state = initialState

\* a reset applied to a completed, oversize-flagged state at 100 percent
C1_Witness ==
  /\ events = <<FaceDetected("no")>>
  /\ prev.processComplete
  /\ prev.faceTooBig = "yes"
  /\ prev.faceDetected = "yes"
  /\ prev.currentDetectionIndex = N - 1
  /\ prev.progressFill = DInt(100)
  /\ state = initialState

\* C2 (as stated). processComplete is true iff currentDetectionIndex = N.
C2_CompleteIffIndexIsN ==
  state.processComplete <=> state.currentDetectionIndex = N

\* C2 (amended). The index stays in 0..N-1 and never equals N; processComplete
\* is true only at index N - 1, and it turns true exactly on a frame that
\* dispatches NEXT_DETECTION while the index is N - 1.
C2_CompleteAtLastIndex ==
  /\ state.currentDetectionIndex \in 0..(N - 1)
  /\ state.processComplete => state.currentDetectionIndex = N - 1
  /\ (/\ \E i \in DOMAIN events : events[i] = NextDetection
      /\ prev.currentDetectionIndex = N - 1)
       => state.processComplete
  /\ (state.processComplete /\ ~prev.processComplete)
       => /\ \E i \in DOMAIN events : events[i] = NextDetection
          /\ prev.currentDetectionIndex = N - 1

\* the frame whose smile completes the process
C2_Witness ==
  /\ state.processComplete
  /\ ~prev.processComplete
  /\ events = <<NextDetection>>
  /\ state.currentDetectionIndex = N - 1

\* C3 (as stated). FACE_DETECTED(yes) on a state with faceDetected = yes
\* returns the state with every field unchanged.
C3_YesIsNoOpWhenDetected ==
  (events = <<FaceDetected("yes")>> /\ prev.faceDetected = "yes")
    => state = prev

\* C3 (amended). FACE_DETECTED(yes) on a state with faceDetected = yes leaves
\* every field unchanged except progressFill, which it sets to 100 / (N + 1);
\* it is a no-op exactly when progressFill already has that value.
C3_YesResetsProgressOnly ==
  (events = <<FaceDetected("yes")>> /\ prev.faceDetected = "yes")
    => /\ state = [prev EXCEPT !.progressFill = DDivInt(100, N + 1)]
       /\ state = prev <=> prev.progressFill = DDivInt(100, N + 1)

\* FACE_DETECTED(yes) applied to a detected state that had passed two challenges
C3_Witness ==
  /\ events = <<FaceDetected("yes")>>
  /\ prev.faceDetected = "yes"
  /\ prev.currentDetectionIndex = 2
  /\ prev.progressFill = DInt(50)
  /\ state.currentDetectionIndex = 2
  /\ state.progressFill = DDivInt(100, N + 1)

\* C4. Idempotence: FACE_DETECTED(yes) twice in a row gives the state that
\* FACE_DETECTED(yes) once gives.
C4_YesIdempotent ==
  /\ detectionReducer(detectionReducer(state, FaceDetected("yes")),
                      FaceDetected("yes"))
       = detectionReducer(state, FaceDetected("yes"))
  /\ (/\ Len(trace) >= 2
      /\ trace[Len(trace)] = FaceDetected("yes")
      /\ trace[Len(trace) - 1] = FaceDetected("yes"))
       => state = prev

\* two FACE_DETECTED(yes) in a row after an advance: the first one changed
\* progressFill, the second one changed nothing
C4_Witness ==
  /\ Len(trace) >= 4
  /\ trace[Len(trace)] = FaceDetected("yes")
  /\ trace[Len(trace) - 1] = FaceDetected("yes")
  /\ trace[Len(trace) - 2] = NextDetection
  /\ state = prev
  /\ state.currentDetectionIndex >= 1
  /\ state.progressFill = DDivInt(100, N + 1)

\* the trace is FACE_DETECTED(yes) followed by NEXT_DETECTION events only
IsAdvanceRun(t) ==
  /\ Len(t) >= 1
  /\ t[1] = FaceDetected("yes")
  /\ \A i \in 2..Len(t) : t[i] = NextDetection

\* d is k sixths of 100 to within 1/12
NearSixths(d, k) ==
  /\ DLess(DDivInt(200 * k - 1, 12), d)
  /\ DLess(d, DDivInt(200 * k + 1, 12))

\* C5. Progress monotonicity: from the initial state, FACE_DETECTED(yes) gives
\* 100/6 and the k-th NEXT_DETECTION after it gives (k+1)/6 of 100, strictly
\* more than before, for k = 1..5; the fifth gives exactly 100 and is the
\* first to set processComplete; further ones never exceed 100.
C5_ProgressMonotone ==
  IsAdvanceRun(trace) =>
    LET k == Len(trace) - 1
    IN /\ k = 0 => state.progressFill = DDivInt(100, 6)
       /\ k \in 1..5 => /\ DLess(prev.progressFill, state.progressFill)
                        /\ NearSixths(state.progressFill, k + 1)
       /\ state.processComplete <=> k >= 5
       /\ k >= 5 => state.progressFill = DInt(100)
       /\ DLeq(state.progressFill, DInt(100))

\* the fifth NEXT_DETECTION of the run has just completed the process
C5_Witness ==
  /\ IsAdvanceRun(trace)
  /\ Len(trace) = 6
  /\ state.processComplete
  /\ ~prev.processComplete
  /\ state.progressFill = DInt(100)

\* the frame holds exactly one face whose inset rectangle (same origin, width
\* and height less 50) lies inside the preview rectangle
FrameQualifies(r) ==
  /\ Len(r.faces) = 1
  /\ LET b == r.faces[1].bounds
     IN /\ b.origin.x >= PREVIEW_RECT.minX
        /\ b.origin.y >= PREVIEW_RECT.minY
        /\ b.origin.x + b.size.width - 50
             <= PREVIEW_RECT.minX + PREVIEW_RECT.width
        /\ b.origin.y + b.size.height - 50
             <= PREVIEW_RECT.minY + PREVIEW_RECT.height

\* the unadjusted face rectangle reaches previewSize - 90 in both dimensions
FrameOversize(r) ==
  /\ r.faces[1].bounds.size.width >= 235
  /\ r.faces[1].bounds.size.height >= 235

Emitted(es, a) == \E i \in DOMAIN es : es[i] = a

Advances(es) == Cardinality({i \in DOMAIN es : es[i] = NextDetection})

\* C6. From one frame to the next progressFill never decreases while
\* faceDetected stays yes, and it goes back to 0 exactly on the steps where
\* faceDetected goes from yes to no.
C6_ProgressNeverDrops ==
  [][/\ (state.faceDetected = "yes" /\ state'.faceDetected = "yes")
          => DLeq(state.progressFill, state'.progressFill)
     /\ (state.faceDetected = "yes" /\ state'.faceDetected = "no")
          => (state.progressFill # DZero /\ state'.progressFill = DZero)
     /\ (state.progressFill # DZero /\ state'.progressFill = DZero)
          => (state.faceDetected = "yes" /\ state'.faceDetected = "no")]_vars

\* the face is lost after three challenges were passed
C6_Witness ==
  /\ prev.faceDetected = "yes"
  /\ prev.currentDetectionIndex = 3
  /\ prev.progressFill # DZero
  /\ state.faceDetected = "no"
  /\ state.progressFill = DZero

\* C7. A frame with a face count other than 1, or whose inset face rectangle
\* is not inside the preview, dispatches FACE_DETECTED(no) and nothing else,
\* and leaves the roll-angle history as it was.
C7_UnqualifiedFrameResets ==
  [][~FrameQualifies(result')
       => /\ events' = <<FaceDetected("no")>>
          /\ rollAngles' = rollAngles
          /\ state' = initialState]_vars

\* a face that satisfies every challenge, one unit outside the preview, seen
\* while the NOD challenge is current and its history is not empty
C7_Witness ==
  /\ Len(result.faces) = 1
  /\ result.faces[1] = Face(BoundsLeft, 30, 30, 70, 15, 20)
  /\ prev.faceDetected = "yes"
  /\ prev.currentDetectionIndex = 3
  /\ Len(rollAngles) >= 1
  /\ events = <<FaceDetected("no")>>
  /\ state = initialState

\* C8. A contained frame seen while faceDetected = no with width and height
\* both >= 235 dispatches FACE_TOO_BIG(yes) only, so the index and the
\* progress stay; a contained frame that is not oversize, seen while
\* faceDetected = no and faceTooBig = yes, dispatches FACE_TOO_BIG(no).
C8_OversizeHandling ==
  [][(FrameQualifies(result') /\ closure.faceDetected = "no")
       => IF FrameOversize(result')
          THEN /\ events' = <<FaceTooBig("yes")>>
               /\ state'.faceTooBig = "yes"
               /\ state'.faceDetected = "no"
               /\ state'.currentDetectionIndex = state.currentDetectionIndex
               /\ state'.progressFill = state.progressFill
          ELSE closure.faceTooBig = "yes"
                 => /\ Head(events') = FaceTooBig("no")
                    /\ state'.faceTooBig = "no"]_vars

\* an oversize face that satisfies the current challenge did not advance it
C8_Witness ==
  /\ result = [faces |-> <<Face(BoundsTooBig, 30, 30, 70, 15, 20)>>]
  /\ prev.faceDetected = "no"
  /\ events = <<FaceTooBig("yes")>>
  /\ state.faceTooBig = "yes"
  /\ state.currentDetectionIndex = 0
  /\ state.progressFill = DZero

\* C9. FACE_DETECTED(yes) is dispatched only on a qualifying frame seen while
\* faceDetected = no, never on a qualifying frame seen while faceDetected =
\* yes, so progress above 100/(N+1) is not set back to 100/(N+1) while the
\* face stays detected.
C9_DetectedOnlyOnce ==
  [][/\ Emitted(events', FaceDetected("yes"))
          => (FrameQualifies(result') /\ closure.faceDetected = "no")
     /\ (FrameQualifies(result') /\ closure.faceDetected = "yes")
          => ~Emitted(events', FaceDetected("yes"))
     /\ (/\ state.faceDetected = "yes"
         /\ state'.faceDetected = "yes"
         /\ DLess(DDivInt(100, N + 1), state.progressFill))
          => state'.progressFill # DDivInt(100, N + 1)]_vars

\* a qualifying frame seen with two challenges passed keeps the progress at 50
C9_Witness ==
  /\ FrameQualifies(result)
  /\ prev.faceDetected = "yes"
  /\ prev.currentDetectionIndex = 2
  /\ events = <<>>
  /\ state.progressFill = DInt(50)

\* the frame passes the count, containment and size checks of a callback
\* whose state is c
ReachesEvaluation(r, c) ==
  /\ FrameQualifies(r)
  /\ ~(c.faceDetected = "no" /\ FrameOversize(r))

\* C10. A frame that reaches the challenge evaluation dispatches at most one
\* NEXT_DETECTION, decided by the rule of the current challenge alone: BLINK
\* iff both eye probabilities <= 0.3, TURN_HEAD_LEFT iff yaw <= -15,
\* TURN_HEAD_RIGHT iff yaw >= 15, SMILE iff smiling probability >= 0.7.
C10_CurrentRuleDecides ==
  [][ReachesEvaluation(result', closure)
       => LET f == result'.faces[1]
              challenge == detectionsList[closure.currentDetectionIndex + 1]
              advanced == Advances(events') = 1
          IN /\ Advances(events') <= 1
             /\ challenge = "BLINK" =>
                  (advanced <=> (/\ f.leftEyeOpenProbability <= 30
                                 /\ f.rightEyeOpenProbability <= 30))
             /\ challenge = "TURN_HEAD_LEFT" =>
                  (advanced <=> f.yawAngle <= 0 - 15)
             /\ challenge = "TURN_HEAD_RIGHT" =>
                  (advanced <=> f.yawAngle >= 15)
             /\ challenge = "SMILE" =>
                  (advanced <=> f.smilingProbability >= 70)
             /\ state'.currentDetectionIndex
                  \in {state.currentDetectionIndex,
                       state.currentDetectionIndex + 1}]_vars

\* yaw -20 seen while TURN_HEAD_RIGHT is current does not advance
C10_Witness ==
  /\ result = [faces |-> <<Face(BoundsInside, 31, 31, 69, 0 - 20, 0)>>]
  /\ prev.faceDetected = "yes"
  /\ prev.currentDetectionIndex = 2
  /\ events = <<>>
  /\ state = prev

\* ------------------------------------------------------------------------
\* The nod window
\* ------------------------------------------------------------------------

\* Three contained faces of moderate size.  The first closes both eyes and
\* turns left, rolled by -1.5 degrees; the second turns right, rolled by 10
\* degrees; the third is level.  None of them smiles.
NodFaces ==
  {Face(BoundsInside, 30, 30, 69, 0 - 15, 0 - 3),
   Face(BoundsInside, 31, 31, 69, 15, 20),
   Face(BoundsInside, 31, 31, 69, 0, 0)}

\* One camera frame showing one of these faces, whatever its roll angle
NodFrame(f) == Deliver([faces |-> <<f>>], TRUE)

NextNod == \E f \in NodFaces : NodFrame(f)

SpecNod == Init /\ [][NextNod]_vars

\* the position of NOD in detectionsList, counted from 0
NodIndex == (CHOOSE i \in DOMAIN detectionsList : detectionsList[i] = "NOD") - 1

\* the last step was a frame evaluated against NOD
NodEvaluated ==
  /\ FrameQualifies(result)
  /\ prev.faceDetected = "yes"
  /\ ~prev.processComplete
  /\ prev.currentDetectionIndex = NodIndex

\* | mean(|h[1..9]|) - |h[10]| | >= 1.5 degrees, for h in half degrees:
\* | sum / 9 - |h[10]| | >= 3, multiplied by 9
WindowDeviates(h) ==
  Abs(SumAbs(SubSeq(h, 1, 9)) - 9 * Abs(h[10])) >= 27

\* C11. Nod windowing: from an empty history fewer than 10 roll samples never
\* emit NEXT_DETECTION, whatever their values; 10 identical values never emit
\* it; 9 values of 0 followed by one of 10 degrees emit it; and with a full
\* window NOD is satisfied iff | mean(|previous 9|) - |current| | >= 1.5.
C11_NodWindowing ==
  NodEvaluated =>
    /\ Len(rollAngles) < 10 => ~Emitted(events, NextDetection)
    /\ (\A i \in DOMAIN rollAngles : rollAngles[i] = rollAngles[1])
         => ~Emitted(events, NextDetection)
    /\ rollAngles = [i \in 1..10 |-> IF i < 10 THEN 0 ELSE 20]
         => events = <<NextDetection>>
    /\ Len(rollAngles) = 10
         => (events = <<NextDetection>> <=> WindowDeviates(rollAngles))
    /\ events \in {<<>>, <<NextDetection>>}

\* nine level readings and one of -1.5 degrees: a deviation of exactly 1.5
C11_Witness ==
  /\ NodEvaluated
  /\ rollAngles = [i \in 1..10 |-> IF i < 10 THEN 0 ELSE 0 - 3]
  /\ events = <<NextDetection>>
  /\ state.currentDetectionIndex = NodIndex + 1

\* C12. The nod history is reset whenever the session state resets to
\* initial: after any FACE_DETECTED(no) it holds no roll angle recorded before
\* the reset (and a state that shows no detected face holds none at all), so
\* that NOD needs 10 samples of the new attempt.
C12_HistoryResetWithSession ==
  /\ events = <<FaceDetected("no")>> => rollAngles = <<>>
  /\ state.faceDetected = "no" => rollAngles = <<>>

\* C14. The nod history is a FIFO of capacity 10: it never holds more than 10
\* entries, a reading is appended only by a qualifying frame whose current
\* challenge is NOD, and a reading appended to a full history drops exactly
\* the oldest entry, the others keeping their order.
C14_HistoryIsFifo ==
  [][/\ Len(rollAngles') <= 10
     /\ IF /\ ReachesEvaluation(result', closure)
           /\ detectionsList[closure.currentDetectionIndex + 1] = "NOD"
        THEN LET reading == result'.faces[1].rollAngle
             IN rollAngles' = IF Len(rollAngles) < 10
                              THEN rollAngles \o <<reading>>
                              ELSE Tail(rollAngles) \o <<reading>>
        ELSE rollAngles' = rollAngles]_vars

\* a level reading pushed onto a full history whose oldest entry was tilted
C14_Witness ==
  /\ NodEvaluated
  /\ Len(prevRollAngles) = 10
  /\ prevRollAngles[1] = 20
  /\ rollAngles = [i \in 1..10 |-> 0]

\* ------------------------------------------------------------------------
\* Actions of unknown type
\* ------------------------------------------------------------------------

\* actions whose type the reducer does not know
UnexpectedActions ==
  {[type |-> "RESET", payload |-> "null"],
   [type |-> "FACE_LOST", payload |-> "yes"]}

NextUntyped == \E a \in PossibleActions \cup UnexpectedActions : Dispatch(a)

SpecUntyped == Init /\ [][NextUntyped]_vars

KnownTypes == {"FACE_DETECTED", "FACE_TOO_BIG", "NEXT_DETECTION"}

\* C13. An action whose type is none of FACE_DETECTED, FACE_TOO_BIG and
\* NEXT_DETECTION makes the reducer fail with an error: there is no next
\* state, the state held is not changed, and nothing is reduced after it.
C13_UnknownTypeFailsFast ==
  [][LET a == events'[1]
     IN /\ ~thrown
        /\ a.type \notin KnownTypes =>
             /\ detectionReducer(state, a) = Thrown
             /\ thrown'
             /\ state' = state
        /\ a.type \in KnownTypes => ~thrown']_vars

\* an action of unknown type dispatched to a completed session
C13_Witness ==
  /\ thrown
  /\ events = <<[type |-> "RESET", payload |-> "null"]>>
  /\ prev.processComplete
  /\ state = prev

\* ------------------------------------------------------------------------
\* Frames handled before the component has re-rendered
\* ------------------------------------------------------------------------

\* One camera frame handled by the callback of an earlier render: its
\* dispatches are queued behind those of the frames before it and reduced in
\* order, but the state the callback reads is the one of its render.
FrameStale(r) == WithinTilted(r) /\ Deliver(r, FALSE)

\* The component re-renders: the next callback holds the reduced state
Render ==
  /\ closure # state
  /\ closure' = state
  /\ UNCHANGED <<state, rollAngles, result, events, prev, prevRollAngles,
                 thrown, trace>>

\* The faces delivered here: one that satisfies no challenge, the same at the
\* size limit, and one for each challenge that satisfies it alone
ChallengeFaces ==
  {Face(BoundsInside, 31, 31, 69, 0, 0),
   Face(BoundsTooBig, 31, 31, 69, 0, 0),
   Face(BoundsInside, 30, 30, 69, 0, 0),
   Face(BoundsInside, 31, 31, 69, 0 - 15, 0),
   Face(BoundsInside, 31, 31, 69, 15, 0),
   Face(BoundsInside, 31, 31, 69, 0, 20),
   Face(BoundsInside, 31, 31, 70, 0, 0)}

ChallengeResults == {[faces |-> <<>>]} \cup {[faces |-> <<f>>] : f \in ChallengeFaces}

NextStale == (\E r \in ChallengeResults : FrameStale(r)) \/ Render

SpecStale == Init /\ [][NextStale]_vars

\* the face and the history left by its frame satisfy the rule of challenge c
Satisfies(c, f, h) ==
  CASE c = "BLINK" ->
         f.leftEyeOpenProbability <= 30 /\ f.rightEyeOpenProbability <= 30
    [] c = "TURN_HEAD_LEFT" -> f.yawAngle <= 0 - 15
    [] c = "TURN_HEAD_RIGHT" -> f.yawAngle >= 15
    [] c = "NOD" -> Len(h) = 10 /\ WindowDeviates(h)
    [] c = "SMILE" -> f.smilingProbability >= 70

\* C15. No challenge is skipped: the index changes only by +1 or by a reset
\* to 0, and every step from index i to i + 1, and the step to
\* processComplete from the last index, is made by a frame whose measurement
\* satisfies the rule of challenge i, also when the callback reads the state
\* before the events of the previous frame have been applied.
C15_NoChallengeSkipped ==
  LET i == prev.currentDetectionIndex
      j == state.currentDetectionIndex
  IN /\ j \in {i, i + 1, 0}
     /\ (j = i + 1 \/ (state.processComplete /\ ~prev.processComplete))
          => /\ FrameQualifies(result)
             /\ Satisfies(detectionsList[i + 1], result.faces[1], rollAngles)

\* ------------------------------------------------------------------------
\* Progress to completion
\* ------------------------------------------------------------------------

\* The camera keeps delivering frames: onFacesDetected is called for as long
\* as the component is mounted.
NextLive == \E r \in ChallengeResults : Frame(r)

SpecLive == Init /\ [][NextLive]_vars /\ WF_vars(NextLive)

\* the frame shows exactly one face, contained and below the size limit
GoodFrame(r) == FrameQualifies(r) /\ ~FrameOversize(r)

\* the frame handled last was a good one
LastFrameGood == GoodFrame(result)

\* the frame handled last satisfied the challenge that was current
LastFrameSatisfied == Emitted(events, NextDetection)

\* the callback dispatches no NEXT_DETECTION for the good frame it handles
Unsatisfied == GoodFrame(result') /\ ~Emitted(events', NextDetection)

\* C16 (as stated). If from some frame on every frame shows exactly one
\* contained face of moderate size, and frames that satisfy the current
\* challenge keep arriving, processComplete eventually becomes true; a frame
\* that does not satisfy the current challenge leaves currentDetectionIndex
\* and progressFill unchanged.
C16_Completes ==
  /\ ((<>[]LastFrameGood) /\ ([]<>LastFrameSatisfied))
       => <>state.processComplete
  /\ [][Unsatisfied =>
          /\ state'.currentDetectionIndex = state.currentDetectionIndex
          /\ state'.progressFill = state.progressFill]_vars

\* C16 (amended). As above, except that an unsatisfying frame leaves
\* progressFill unchanged only once the face is detected: the frame that
\* detects the face raises it from 0 to 100/(N+1), satisfying or not.
C16_CompletesOnceDetected ==
  /\ ((<>[]LastFrameGood) /\ ([]<>LastFrameSatisfied))
       => <>state.processComplete
  /\ [][Unsatisfied =>
          /\ state'.currentDetectionIndex = state.currentDetectionIndex
          /\ state.faceDetected = "yes"
               => state'.progressFill = state.progressFill
          /\ state.faceDetected = "no"
               => /\ state.progressFill = DZero
                  /\ state'.progressFill = DDivInt(100, N + 1)]_vars

\* a smile seen by a good frame while SMILE is current completes the process
C16_Witness ==
  /\ LastFrameGood
  /\ prev.faceDetected = "yes"
  /\ prev.currentDetectionIndex = N - 1
  /\ ~prev.processComplete
  /\ events = <<NextDetection>>
  /\ state.processComplete
  /\ Len(rollAngles) = 10

\* ------------------------------------------------------------------------
\* Invariants of the session state
\* ------------------------------------------------------------------------

\* C17. currentDetectionIndex stays within 0..N-1 in every state the reducer
\* reaches, completion included, so that detectionsList[currentDetectionIndex]
\* and the instruction looked up with it are always defined.
C17_IndexInRange ==
  /\ state.currentDetectionIndex \in 0..(N - 1)
  /\ state.currentDetectionIndex + 1 \in DOMAIN state.detectionsList
  /\ state.detectionsList[state.currentDetectionIndex + 1] \in DOMAIN detections

\* NEXT_DETECTION reduced in a completed state
C17_Witness ==
  /\ events = <<NextDetection>>
  /\ prev.processComplete
  /\ prev.currentDetectionIndex = N - 1
  /\ state.currentDetectionIndex = N - 1

\* the actions that leave a completed session as it is
AbsorbedActions == {NextDetection, FaceTooBig("yes"), FaceTooBig("no")}

\* C18. Completion is absorbing under NEXT_DETECTION and FACE_TOO_BIG: with
\* processComplete true they leave processComplete and currentDetectionIndex
\* unchanged, and progressFill at 100; processComplete goes back to false only
\* through FACE_DETECTED(no).
C18_CompletionAbsorbing ==
  /\ state.processComplete =>
       \A a \in AbsorbedActions :
          LET next == detectionReducer(state, a)
          IN /\ next.processComplete
             /\ next.currentDetectionIndex = state.currentDetectionIndex
             /\ state.progressFill = DInt(100)
                  => next.progressFill = DInt(100)
  /\ (prev.processComplete /\ events # <<>> /\ events[1] \in AbsorbedActions)
       => /\ state.processComplete
          /\ state.currentDetectionIndex = prev.currentDetectionIndex
          /\ prev.progressFill = DInt(100) => state.progressFill = DInt(100)
  /\ (prev.processComplete /\ ~state.processComplete)
       => events = <<FaceDetected("no")>>

\* FACE_TOO_BIG(yes) reduced in a completed state at 100 percent
C18_Witness ==
  /\ events = <<FaceTooBig("yes")>>
  /\ prev.processComplete
  /\ prev.progressFill = DInt(100)
  /\ state.processComplete
  /\ state.progressFill = DInt(100)
  /\ state.currentDetectionIndex = prev.currentDetectionIndex

\* C19. In every state reached through the frame callback faceTooBig = yes
\* and faceDetected = yes never hold together: the flag is raised only while
\* no face is detected, it is cleared before FACE_DETECTED(yes) is reduced,
\* and it stays no while the face is detected, whatever the face size.
C19_TooBigOnlyUndetected ==
  /\ ~(state.faceTooBig = "yes" /\ state.faceDetected = "yes")
  /\ Emitted(events, FaceTooBig("yes")) => prev.faceDetected = "no"
  /\ (Emitted(events, FaceDetected("yes")) /\ prev.faceTooBig = "yes")
       => events[1] = FaceTooBig("no")
  /\ (prev.faceDetected = "yes" /\ state.faceDetected = "yes")
       => state.faceTooBig = "no"

\* a face of moderate size seen while the session is flagged oversize
C19_Witness ==
  /\ prev.faceTooBig = "yes"
  /\ prev.faceDetected = "no"
  /\ Len(events) >= 2
  /\ events[1] = FaceTooBig("no")
  /\ events[2] = FaceDetected("yes")
  /\ state.faceDetected = "yes"
  /\ state.faceTooBig = "no"

\* C20. In every state reached through the frame callback, faceDetected = no
\* implies currentDetectionIndex = 0, progressFill = 0 and processComplete
\* false; faceDetected = yes implies progressFill = (100/(N+1)) *
\* (currentDetectionIndex + 1) while not complete and 100 when complete.
C20_ProgressMatchesIndex ==
  /\ state.faceDetected = "no" =>
       /\ state.currentDetectionIndex = 0
       /\ state.progressFill = DZero
       /\ ~state.processComplete
  /\ state.faceDetected = "yes" =>
       state.progressFill =
         IF state.processComplete
         THEN DInt(100)
         ELSE DMulInt(DDivInt(100, N + 1), state.currentDetectionIndex + 1)

\* four challenges passed: five sixths of 100, rounded as the product is
C20_Witness ==
  /\ state.faceDetected = "yes"
  /\ ~state.processComplete
  /\ state.currentDetectionIndex = N - 1
  /\ state.progressFill = DMulInt(DDivInt(100, N + 1), N)
  /\ state.progressFill # DDivInt(250, 3)

====
